---- MODULE Spec2Model ----
(***************************************************************************)
(* Model of scrape_build.py: fetch one page, extract supporter records     *)
(* from its h3-delimited markup, deduplicate, sort, and write one file.    *)
(*                                                                         *)
(* Strings are sequences of Unicode code points (the Latin-1 range 0..255  *)
(* is covered by the character tables below), so that code-point ordering, *)
(* case mapping and the regular expression are computed character by       *)
(* character.  Python's None is the empty sequence: every optional field   *)
(* of a record (branche, url, logo) is either None or a non-empty string,  *)
(* so the two are never confused.                                          *)
(***************************************************************************)
EXTENDS Integers, Sequences, FiniteSets, TLC

None == <<>>

\* ------------------------------------------------------------------------
\* Python str / re primitives used by the source
\* ------------------------------------------------------------------------

\* str.isspace() and the regex class \s (identical for str patterns).
IsSpace(c) == c \in {9, 10, 11, 12, 13, 28, 29, 30, 31, 32, 133, 160}

\* The regex class \w for str patterns: alphanumerics and the underscore.
IsWord(c) ==
    \/ c \in 48..57 \/ c \in 65..90 \/ c \in 97..122 \/ c = 95
    \/ c \in {170, 178, 179, 181, 185, 186, 188, 189, 190}
    \/ c \in 192..214 \/ c \in 216..246 \/ c \in 248..255

\* chr.lower() of one character.
LowerChar(c) ==
    IF c \in 65..90 \/ c \in 192..214 \/ c \in 216..222 THEN c + 32 ELSE c

\* chr.upper() of one character: a string, since "ß".upper() is "SS".
UpperChar(c) ==
    IF c \in 97..122 \/ c \in 224..246 \/ c \in 248..254 THEN <<c - 32>>
    ELSE IF c = 223 THEN <<83, 83>>
    ELSE IF c = 255 THEN <<376>>
    ELSE IF c = 181 THEN <<924>>
    ELSE <<c>>

RECURSIVE Flatten(_)
\* "".join(parts)
Flatten(parts) ==
    IF parts = <<>> THEN <<>> ELSE Head(parts) \o Flatten(Tail(parts))

RECURSIVE str_join(_, _)
\* sep.join(parts)
str_join(sep, parts) ==
    IF parts = <<>> THEN <<>>
    ELSE IF Len(parts) = 1 THEN parts[1]
    ELSE parts[1] \o sep \o str_join(sep, Tail(parts))

SetMin(S) == CHOOSE x \in S : \A y \in S : x <= y
SetMax(S) == CHOOSE x \in S : \A y \in S : y <= x

\* s.strip(): drops leading and trailing whitespace (U+00A0 included).
str_strip(s) ==
    LET ink == {i \in 1..Len(s) : ~IsSpace(s[i])}
    IN  IF ink = {} THEN <<>> ELSE SubSeq(s, SetMin(ink), SetMax(ink))

\* s.lower()
str_lower(s) == [i \in 1..Len(s) |-> LowerChar(s[i])]

\* s.upper()
str_upper(s) == Flatten([i \in 1..Len(s) |-> UpperChar(s[i])])

\* s.replace(c, r) for a one-character c
str_replace(s, c, r) ==
    Flatten([i \in 1..Len(s) |-> IF s[i] = c THEN r ELSE <<s[i]>>])

\* s.startswith(p)
str_startswith(s, p) == Len(s) >= Len(p) /\ SubSeq(s, 1, Len(p)) = p

\* re.sub(r"\s+", " ", s): every maximal run of whitespace becomes one space.
re_sub_ws(s) ==
    Flatten([i \in 1..Len(s) |->
        IF ~IsSpace(s[i]) THEN <<s[i]>>
        ELSE IF i = 1 \/ ~IsSpace(s[i - 1]) THEN <<32>>
        ELSE <<>>])

RECURSIVE StrLess(_, _)
\* a < b on Python strings: lexicographic on code points.
StrLess(a, b) ==
    IF b = <<>> THEN FALSE
    ELSE IF a = <<>> THEN TRUE
    ELSE IF a[1] # b[1] THEN a[1] < b[1]
    ELSE StrLess(Tail(a), Tail(b))

\* ------------------------------------------------------------------------
\* Module constants
\* ------------------------------------------------------------------------

\* "https://www.initiativeoesterreich2040.at"
BASE ==
    <<104, 116, 116, 112, 115, 58, 47, 47, 119, 119, 119, 46, 105, 110, 105,
      116, 105, 97, 116, 105, 118, 101, 111, 101, 115, 116, 101, 114, 114,
      101, 105, 99, 104, 50, 48, 52, 48, 46, 97, 116>>

\* "KONTAKTIEREN SIE UNS WENN SIE UNTERSTÜTZER WERDEN WOLLEN",
\* "ÜBER INITIATIVE ÖSTERREICH 2040"
SKIP_TITLES ==
    { <<75, 79, 78, 84, 65, 75, 84, 73, 69, 82, 69, 78, 32, 83, 73, 69, 32,
        85, 78, 83, 32, 87, 69, 78, 78, 32, 83, 73, 69, 32, 85, 78, 84, 69,
        82, 83, 84, 220, 84, 90, 69, 82, 32, 87, 69, 82, 68, 69, 78, 32, 87,
        79, 76, 76, 69, 78>>,
      <<220, 66, 69, 82, 32, 73, 78, 73, 84, 73, 65, 84, 73, 86, 69, 32, 214,
        83, 84, 69, 82, 82, 69, 73, 67, 72, 32, 50, 48, 52, 48>> }

HTTP_PREFIX == <<104, 116, 116, 112, 58, 47, 47>>        \* "http://"
HTTPS_PREFIX == <<104, 116, 116, 112, 115, 58, 47, 47>>  \* "https://"

\* ------------------------------------------------------------------------
\* Helpers
\* ------------------------------------------------------------------------

normalize_sort_key(name) ==
    LET s0 == str_lower(str_strip(name))
        s1 == str_replace(s0, 228, <<97, 101>>)      \* ä -> ae
        s2 == str_replace(s1, 246, <<111, 101>>)     \* ö -> oe
        s3 == str_replace(s2, 252, <<117, 101>>)     \* ü -> ue
        s4 == str_replace(s3, 223, <<115, 115>>)     \* ß -> ss
    IN  re_sub_ws(s4)

\* esc_attr: & first, then <, >, ".
esc_attr(s) ==
    LET s1 == str_replace(s, 38, <<38, 97, 109, 112, 59>>)
        s2 == str_replace(s1, 60, <<38, 108, 116, 59>>)
        s3 == str_replace(s2, 62, <<38, 103, 116, 59>>)
    IN  str_replace(s3, 34, <<38, 113, 117, 111, 116, 59>>)

\* ------------------------------------------------------------------------
\* urllib.parse.urljoin, as find_logo_before_h3 calls it
\* ------------------------------------------------------------------------

\* s.find(c, from): the first position of c at or after from, 0 if none.
str_find(s, c, from) ==
    LET hits == {i \in from..Len(s) : s[i] = c}
    IN  IF hits = {} THEN 0 ELSE SetMin(hits)

RECURSIVE str_split(_, _)
\* s.split(c)
str_split(s, c) ==
    LET i == str_find(s, c, 1)
    IN  IF i = 0 THEN <<s>>
        ELSE <<SubSeq(s, 1, i - 1)>> \o str_split(SubSeq(s, i + 1, Len(s)), c)

IsDigit(c) == c \in 48..57
IsHexDigit(c) == c \in 48..57 \/ c \in 65..70 \/ c \in 97..102
IsAsciiAlpha(c) == c \in 65..90 \/ c \in 97..122
\* scheme_chars
IsSchemeChar(c) == IsAsciiAlpha(c) \/ IsDigit(c) \/ c \in {43, 45, 46}

\* uses_relative
uses_relative ==
    { <<>>,
      <<102, 116, 112>>,
      <<104, 116, 116, 112>>,
      <<103, 111, 112, 104, 101, 114>>,
      <<110, 110, 116, 112>>,
      <<105, 109, 97, 112>>,
      <<119, 97, 105, 115>>,
      <<102, 105, 108, 101>>,
      <<104, 116, 116, 112, 115>>,
      <<115, 104, 116, 116, 112>>,
      <<109, 109, 115>>,
      <<112, 114, 111, 115, 112, 101, 114, 111>>,
      <<114, 116, 115, 112>>,
      <<114, 116, 115, 112, 115>>,
      <<114, 116, 115, 112, 117>>,
      <<115, 102, 116, 112>>,
      <<115, 118, 110>>,
      <<115, 118, 110, 43, 115, 115, 104>>,
      <<119, 115>>,
      <<119, 115, 115>> }

\* uses_netloc
uses_netloc ==
    { <<>>,
      <<102, 116, 112>>,
      <<104, 116, 116, 112>>,
      <<103, 111, 112, 104, 101, 114>>,
      <<110, 110, 116, 112>>,
      <<116, 101, 108, 110, 101, 116>>,
      <<105, 109, 97, 112>>,
      <<119, 97, 105, 115>>,
      <<102, 105, 108, 101>>,
      <<109, 109, 115>>,
      <<104, 116, 116, 112, 115>>,
      <<115, 104, 116, 116, 112>>,
      <<115, 110, 101, 119, 115>>,
      <<112, 114, 111, 115, 112, 101, 114, 111>>,
      <<114, 116, 115, 112>>,
      <<114, 116, 115, 112, 115>>,
      <<114, 116, 115, 112, 117>>,
      <<114, 115, 121, 110, 99>>,
      <<115, 118, 110>>,
      <<115, 118, 110, 43, 115, 115, 104>>,
      <<115, 102, 116, 112>>,
      <<110, 102, 115>>,
      <<103, 105, 116>>,
      <<103, 105, 116, 43, 115, 115, 104>>,
      <<119, 115>>,
      <<119, 115, 115>> }

\* uses_params
uses_params ==
    { <<>>,
      <<102, 116, 112>>,
      <<104, 100, 108>>,
      <<112, 114, 111, 115, 112, 101, 114, 111>>,
      <<104, 116, 116, 112>>,
      <<105, 109, 97, 112>>,
      <<104, 116, 116, 112, 115>>,
      <<115, 104, 116, 116, 112>>,
      <<114, 116, 115, 112>>,
      <<114, 116, 115, 112, 115>>,
      <<114, 116, 115, 112, 117>>,
      <<115, 105, 112>>,
      <<115, 105, 112, 115>>,
      <<109, 109, 115>>,
      <<115, 102, 116, 112>>,
      <<116, 101, 108>> }

\* The value of a string of one to three decimal digits.
octet_value(o) ==
    IF Len(o) = 1 THEN o[1] - 48
    ELSE IF Len(o) = 2 THEN 10 * (o[1] - 48) + (o[2] - 48)
    ELSE 100 * (o[1] - 48) + 10 * (o[2] - 48) + (o[3] - 48)

\* _parse_octet accepts o.
IsOctet(o) ==
    /\ o # <<>>
    /\ \A j \in 1..Len(o) : IsDigit(o[j])
    /\ Len(o) <= 3
    /\ o = <<48>> \/ o[1] # 48
    /\ octet_value(o) <= 255

\* ipaddress.IPv4Address(s) is valid.
IsIPv4(s) ==
    /\ s # <<>>
    /\ Len(str_split(s, 46)) = 4
    /\ \A k \in 1..4 : IsOctet(str_split(s, 46)[k])

\* _parse_hextet accepts h.
IsHextet(h) == h # <<>> /\ Len(h) <= 4 /\ \A j \in 1..Len(h) : IsHexDigit(h[j])

\* _ip_int_from_string accepts the address split at ":" into parts, a
\* trailing IPv4 address already replaced by two hextets.
IsIPv6Parts(parts) ==
    LET n == Len(parts)
        skips == {k \in 2..(n - 1) : parts[k] = <<>>}
    IN  /\ n <= 9
        /\ Cardinality(skips) <= 1
        /\ \A k \in skips :
              LET hi == IF parts[1] = <<>> THEN k - 2 ELSE k - 1
                  lo == IF parts[n] = <<>> THEN n - k - 1 ELSE n - k
              IN  /\ parts[1] = <<>> => k = 2
                  /\ parts[n] = <<>> => k = n - 1
                  /\ 8 - (hi + lo) >= 1
                  /\ \A j \in 1..hi : IsHextet(parts[j])
                  /\ \A j \in (n - lo + 1)..n : IsHextet(parts[j])
        /\ skips = {} => n = 8 /\ \A j \in 1..n : IsHextet(parts[j])

\* ipaddress.IPv6Address accepts addr, an address without scope id.
IsIPv6Addr(addr) ==
    LET parts == str_split(addr, 58)
        last == parts[Len(parts)]
    IN  /\ addr # <<>>
        /\ Len(parts) >= 3
        /\ IF str_find(last, 46, 1) > 0
           THEN /\ IsIPv4(last)
                /\ IsIPv6Parts(SubSeq(parts, 1, Len(parts) - 1) \o <<<<48>>, <<48>>>>)
           ELSE IsIPv6Parts(parts)

\* ipaddress.IPv6Address(s) is valid.
IsIPv6(s) ==
    LET pct == str_find(s, 37, 1)
    IN  IF pct = 0 THEN IsIPv6Addr(s)
        ELSE /\ pct < Len(s)
             /\ str_find(s, 37, pct + 1) = 0
             /\ IsIPv6Addr(SubSeq(s, 1, pct - 1))

\* re.match(r"\Av[a-fA-F0-9]+\..+\Z", host), for a host without line breaks.
IsIPvFuture(host) ==
    LET stop == SetMin({j \in 2..(Len(host) + 1) :
                           j = Len(host) + 1 \/ ~IsHexDigit(host[j])})
    IN  /\ host # <<>> /\ host[1] = 118
        /\ stop > 2 /\ stop < Len(host) /\ host[stop] = 46

\* _check_bracketed_host(host) raises ValueError.
BadBracketedHost(host) ==
    IF host # <<>> /\ host[1] = 118 THEN ~IsIPvFuture(host) ELSE ~IsIPv6(host)

\* s.partition(c): what is before the first c, and what is after it.
str_partition(s, c) ==
    LET i == str_find(s, c, 1)
    IN  IF i = 0 THEN <<s, <<>>>>
        ELSE <<SubSeq(s, 1, i - 1), SubSeq(s, i + 1, Len(s))>>

\* urlsplit raises ValueError for this netloc.  (_checknetloc never raises
\* for a netloc of Latin-1 characters.)
BadNetloc(netloc) ==
    LET open == str_find(netloc, 91, 1) > 0
        close == str_find(netloc, 93, 1) > 0
    IN  IF ~open /\ ~close THEN FALSE
        ELSE IF ~open \/ ~close THEN TRUE
        ELSE BadBracketedHost(str_partition(str_partition(netloc, 91)[2], 93)[1])

\* url.lstrip(_WHATWG_C0_CONTROL_OR_SPACE)
url_lstrip(url) ==
    LET keep == {i \in 1..Len(url) : url[i] > 32}
    IN  IF keep = {} THEN <<>> ELSE SubSeq(url, SetMin(keep), Len(url))

\* scheme.strip(_WHATWG_C0_CONTROL_OR_SPACE)
scheme_strip(scheme) ==
    LET keep == {i \in 1..Len(scheme) : scheme[i] > 32}
    IN  IF keep = {} THEN <<>> ELSE SubSeq(scheme, SetMin(keep), SetMax(keep))

\* The tab, line feed and carriage return are removed.
remove_unsafe(s) == SelectSeq(s, LAMBDA c : c \notin {9, 10, 13})

\* The position of the ":" that ends the scheme of url, 0 if url has none.
scheme_end(url) ==
    LET i == str_find(url, 58, 1)
    IN  IF /\ i > 1
           /\ IsAsciiAlpha(url[1])
           /\ \A k \in 1..(i - 1) : IsSchemeChar(url[k])
        THEN i ELSE 0

\* _splitnetloc(url, 2): the position after the netloc of "//netloc...".
netloc_end(url) ==
    SetMin({j \in 3..(Len(url) + 1) : j = Len(url) + 1 \/ url[j] \in {47, 63, 35}})

\* The position of the ";" at which _splitparams cuts url, 0 if none.
params_at(url) ==
    LET slashes == {j \in 1..Len(url) : url[j] = 47}
    IN  str_find(url, 59, IF slashes = {} THEN 1 ELSE SetMax(slashes))

\* The components of what follows the scheme and the netloc.
parse_tail(scheme, netloc, raises, rest) ==
    LET upath == str_partition(str_partition(rest, 35)[1], 63)[1]
        semi == IF scheme \in uses_params THEN params_at(upath) ELSE 0
    IN  [scheme |-> scheme,
         netloc |-> netloc,
         path |-> IF semi > 0 THEN SubSeq(upath, 1, semi - 1) ELSE upath,
         params |-> IF semi > 0 THEN SubSeq(upath, semi + 1, Len(upath)) ELSE <<>>,
         query |-> str_partition(str_partition(rest, 35)[1], 63)[2],
         fragment |-> str_partition(rest, 35)[2],
         raises |-> raises]

\* The components of what follows the scheme.
parse_hier(scheme, rest) ==
    IF str_startswith(rest, <<47, 47>>)
    THEN parse_tail(scheme, SubSeq(rest, 3, netloc_end(rest) - 1),
                    BadNetloc(SubSeq(rest, 3, netloc_end(rest) - 1)),
                    SubSeq(rest, netloc_end(rest), Len(rest)))
    ELSE parse_tail(scheme, <<>>, FALSE, rest)

\* The components of url, cleaned.
parse_clean(url, scheme) ==
    IF scheme_end(url) > 0
    THEN parse_hier(str_lower(SubSeq(url, 1, scheme_end(url) - 1)),
                    SubSeq(url, scheme_end(url) + 1, Len(url)))
    ELSE parse_hier(scheme, url)

\* urlparse(url, scheme): the six components, and whether it raises.
urlparse(url, scheme) ==
    parse_clean(remove_unsafe(url_lstrip(url)), remove_unsafe(scheme_strip(scheme)))

\* urlunsplit((scheme, netloc, url, query, fragment))
urlunsplit(scheme, netloc, url, query, fragment) ==
    (IF scheme # <<>> THEN scheme \o <<58>> ELSE <<>>)
    \o (IF \/ netloc # <<>>
           \/ /\ scheme # <<>>
              /\ scheme \in uses_netloc
              /\ ~str_startswith(url, <<47, 47>>)
        THEN <<47, 47>> \o netloc
             \o (IF url # <<>> /\ url[1] # 47 THEN <<47>> ELSE <<>>)
        ELSE <<>>)
    \o url
    \o (IF query # <<>> THEN <<63>> \o query ELSE <<>>)
    \o (IF fragment # <<>> THEN <<35>> \o fragment ELSE <<>>)

\* urlunparse((scheme, netloc, path, params, query, fragment))
urlunparse(scheme, netloc, path, params, query, fragment) ==
    urlunsplit(scheme, netloc,
               IF params # <<>> THEN path \o <<59>> \o params ELSE path,
               query, fragment)

RECURSIVE resolve_path(_, _, _)
\* The loop over segments from position i on, given resolved_path.
resolve_path(segments, i, resolved) ==
    IF i > Len(segments) THEN resolved
    ELSE IF segments[i] = <<46, 46>>
         THEN resolve_path(segments, i + 1,
                  IF resolved = <<>> THEN resolved
                  ELSE SubSeq(resolved, 1, Len(resolved) - 1))
    ELSE IF segments[i] = <<46>> THEN resolve_path(segments, i + 1, resolved)
    ELSE resolve_path(segments, i + 1, Append(resolved, segments[i]))

\* bpath.split('/'), without its last part unless that is empty.
base_parts(bpath) ==
    LET parts == str_split(bpath, 47)
    IN  IF parts[Len(parts)] # <<>> THEN SubSeq(parts, 1, Len(parts) - 1) ELSE parts

\* segments[1:-1] = filter(None, segments[1:-1])
drop_empty_inner(segments) ==
    IF Len(segments) <= 2 THEN segments
    ELSE <<segments[1]>>
         \o SelectSeq(SubSeq(segments, 2, Len(segments) - 1), LAMBDA x : x # <<>>)
         \o <<segments[Len(segments)]>>

\* The segments of the path of the reference, joined to those of the base.
path_segments(bpath, path) ==
    IF path # <<>> /\ path[1] = 47 THEN str_split(path, 47)
    ELSE drop_empty_inner(base_parts(bpath) \o str_split(path, 47))

\* The path of the result: the segments without their dot segments.
resolved_path(segments) ==
    LET resolved == resolve_path(segments, 1, <<>>)
        joined == str_join(<<47>>,
                      IF segments[Len(segments)] \in {<<46>>, <<46, 46>>}
                      THEN Append(resolved, <<>>) ELSE resolved)
    IN  IF joined # <<>> THEN joined ELSE <<47>>

\* urljoin with both URLs parsed: b the base, r the reference url.
join_parsed(b, r, url) ==
    IF r.scheme # b.scheme \/ r.scheme \notin uses_relative THEN url
    ELSE IF r.scheme \in uses_netloc /\ r.netloc # <<>>
    THEN urlunparse(r.scheme, r.netloc, r.path, r.params, r.query, r.fragment)
    ELSE IF r.path = <<>> /\ r.params = <<>>
    THEN urlunparse(r.scheme, b.netloc, b.path, b.params,
                    IF r.query = <<>> THEN b.query ELSE r.query, r.fragment)
    ELSE urlunparse(r.scheme, b.netloc, resolved_path(path_segments(b.path, r.path)),
                    r.params, r.query, r.fragment)

\* urljoin(base, url) raises ValueError.
urljoin_raises(base, url) ==
    /\ base # <<>>
    /\ url # <<>>
    /\ \/ urlparse(base, <<>>).raises
       \/ urlparse(url, urlparse(base, <<>>).scheme).raises

\* urljoin(base, url): what it returns when it does not raise.  Where
\* urljoin_raises holds the call returns nothing and this value stands for
\* no value of the program.
urljoin(base, url) ==
    IF base = <<>> THEN url
    ELSE IF url = <<>> THEN base
    ELSE join_parsed(urlparse(base, <<>>),
                     urlparse(url, urlparse(base, <<>>).scheme), url)

\* ------------------------------------------------------------------------
\* The parsed document
\* ------------------------------------------------------------------------
\* The parse tree in document order, which is the order h.next_elements
\* walks and h.previous_elements walks in reverse.  A node is
\*   [kind, val, inH]: kind "h3" | "img" | "a" | "text" | "other";
\*   val the src of an img, the href of an a, the content of a text node
\*   (<<>> when the attribute is missing); inH whether the node is a
\*   descendant of the closest h3 before it.  Headings are not nested.
\* A text node is a NavigableString; comments and other special strings,
\* which get_text leaves out and the forward walk collects, do not occur
\* in the pages below.
Node(k, v, h) == [kind |-> k, val |-> v, inH |-> h]

\* soup.find_all("h3"): the positions of the headings, in document order.
headings(doc) == {i \in 1..Len(doc) : doc[i].kind = "h3"}

\* The last position that is a descendant of the heading at h.
LastDescendant(doc, h) ==
    LET out == {j \in (h + 1)..(Len(doc) + 1) : j = Len(doc) + 1 \/ ~doc[j].inH}
    IN  SetMin(out) - 1

RECURSIVE StrippedStrings(_, _, _)
\* The stripped, non-empty strings of the text nodes at positions i..j.
StrippedStrings(doc, i, j) ==
    IF i > j THEN <<>>
    ELSE LET t == IF doc[i].kind = "text" THEN str_strip(doc[i].val) ELSE <<>>
         IN  (IF t = <<>> THEN <<>> ELSE <<t>>) \o StrippedStrings(doc, i + 1, j)

\* h.get_text(" ", strip=True).replace("\xa0", " ").strip()
heading_name(doc, h) ==
    str_strip(str_replace(
        str_join(<<32>>, StrippedStrings(doc, h + 1, LastDescendant(doc, h))),
        160, <<32>>))

\* Variant: the backward walk runs to the start of the document.
LogoWalkNeverStops(el) == FALSE

\* The backward walk ends at an h3.
LogoWalkStops(el) == el.kind = "h3"

\* An img counts when its src is present and non-empty.
LogoTaken(el) == el.kind = "img" /\ el.val # <<>>

RECURSIVE logo_walk(_, _)
\* The loop over h3.previous_elements, at position i.
logo_walk(doc, i) ==
    IF i < 1 THEN None
    ELSE IF LogoWalkStops(doc[i]) THEN None
    ELSE IF LogoTaken(doc[i]) THEN urljoin(BASE, doc[i].val)
    ELSE logo_walk(doc, i - 1)

find_logo_before_h3(doc, h) == logo_walk(doc, h - 1)

RECURSIVE logo_walk_raises(_, _)
\* The loop over h3.previous_elements, at position i, ends in the ValueError
\* of urljoin.
logo_walk_raises(doc, i) ==
    IF i < 1 THEN FALSE
    ELSE IF LogoWalkStops(doc[i]) THEN FALSE
    ELSE IF LogoTaken(doc[i]) THEN urljoin_raises(BASE, doc[i].val)
    ELSE logo_walk_raises(doc, i - 1)

find_logo_raises(doc, h) == logo_walk_raises(doc, h - 1)

\* Variant: the forward walk starts after the heading's last descendant.
WalkStartAfterHeading(doc, h) == LastDescendant(doc, h) + 1

\* The forward walk starts at the first element after the heading's own
\* start, which is its first descendant.
WalkStart(doc, h) == h + 1

\* Variant: the forward walk runs to the end of the document.
WalkNeverStops(el) == FALSE

\* The forward walk ends at an h3.
WalkStops(el) == el.kind = "h3"

\* The last position of the forward walk from the heading at h.
WalkEnd(doc, h) ==
    LET out == {j \in WalkStart(doc, h)..(Len(doc) + 1) :
                   j = Len(doc) + 1 \/ WalkStops(doc[j])}
    IN  SetMin(out) - 1

\* href qualifies as an external link.
IsExternal(href) ==
    str_startswith(href, HTTP_PREFIX) \/ str_startswith(href, HTTPS_PREFIX)

\* The first a whose stripped href is external, over positions i..j.
first_link(doc, i, j) ==
    LET hits == {k \in i..j : doc[k].kind = "a" /\ IsExternal(str_strip(doc[k].val))}
    IN  IF hits = {} THEN None ELSE str_strip(doc[SetMin(hits)].val)

RECURSIVE collect_texts(_, _, _)
\* texts: el.strip().replace("\xa0", " ") of every string, empty ones dropped.
collect_texts(doc, i, j) ==
    IF i > j THEN <<>>
    ELSE LET t == IF doc[i].kind = "text"
                  THEN str_replace(str_strip(doc[i].val), 160, <<32>>)
                  ELSE <<>>
         IN  (IF t = <<>> THEN <<>> ELSE <<t>>) \o collect_texts(doc, i + 1, j)

\* re.sub(r"\s+", " ", " ".join(texts)).strip()
block_text(doc, h) ==
    str_strip(re_sub_ws(str_join(<<32>>,
        collect_texts(doc, WalkStart(doc, h), WalkEnd(doc, h)))))

\* ------------------------------------------------------------------------
\* re.search(r"\bBranche\s*:\s*(.+?)(?=(?:\shttps?://)|$)", text, IGNORECASE)
\* ------------------------------------------------------------------------

\* The literal lit (given in lower case) matches at p, ignoring case.
MatchLitI(s, p, lit) ==
    /\ p + Len(lit) - 1 <= Len(s)
    /\ \A k \in 1..Len(lit) : LowerChar(s[p + k - 1]) = lit[k]

\* The number of whitespace characters from p on (a greedy \s*).
WsRun(s, p) ==
    LET stop == {j \in p..(Len(s) + 1) : j = Len(s) + 1 \/ ~IsSpace(s[j])}
    IN  SetMin(stop) - p

\* \shttps?:// matches at p.
UrlMarkerAt(s, p) ==
    /\ p <= Len(s)
    /\ IsSpace(s[p])
    /\ \/ MatchLitI(s, p + 1, HTTP_PREFIX)
       \/ MatchLitI(s, p + 1, HTTPS_PREFIX)

\* $ matches at p: the end, or a newline that ends the string.
AtEnd(s, p) == p = Len(s) + 1 \/ (p = Len(s) /\ s[p] = 10)

\* The lookahead (?=(?:\shttps?://)|$) holds at p.
Lookahead(s, p) == UrlMarkerAt(s, p) \/ AtEnd(s, p)

\* The lazy group (.+?) starting at q: the least end e such that q..e holds
\* no newline and the lookahead holds after e; 0 when there is none.
LazyEnd(s, q) ==
    LET ok == {e \in q..Len(s) :
                 /\ \A k \in q..e : s[k] # 10
                 /\ Lookahead(s, e + 1)}
    IN  IF ok = {} THEN 0 ELSE SetMin(ok)

\* The match attempted at p: group 1, or <<>> when the pattern does not
\* match there (group 1 of a match is never empty).
MatchAt(s, p) ==
    IF ~(/\ p = 1 \/ ~IsWord(s[p - 1])
         /\ MatchLitI(s, p, <<98, 114, 97, 110, 99, 104, 101>>))
    THEN <<>>
    ELSE LET c == p + 7 + WsRun(s, p + 7)
         IN  IF ~(c <= Len(s) /\ s[c] = 58) THEN <<>>
             ELSE LET \* the greedy \s* after the colon gives back one
                      \* character at a time until the group can match
                      ms == {m \in 0..WsRun(s, c + 1) : LazyEnd(s, c + 1 + m) # 0}
                  IN  IF ms = {} THEN <<>>
                      ELSE LET q == c + 1 + SetMax(ms)
                           IN  SubSeq(s, q, LazyEnd(s, q))

\* m.group(1) of the leftmost match, <<>> when m is None.
re_search_branche(s) ==
    LET hits == {p \in 1..Len(s) : MatchAt(s, p) # <<>>}
    IN  IF hits = {} THEN <<>> ELSE MatchAt(s, SetMin(hits))

\* branche = m.group(1).strip() or None
parse_branche(text) == str_strip(re_search_branche(text))

\* ------------------------------------------------------------------------
\* Extraction
\* ------------------------------------------------------------------------

\* Variant: every named heading is taken.
IsPartnerAlways(logo_url, branche, link) == TRUE

\* if not (logo_url or branche or link): continue
IsPartner(logo_url, branche, link) ==
    logo_url # None \/ branche # None \/ link # None

\* The heading is passed over: empty name, or a skip title.
IsSkipped(name) == name = <<>> \/ str_upper(name) \in SKIP_TITLES

\* Variant: the sort field is the name as displayed.
SortFieldUnnormalized(name) == name

\* The sort field of a record.
SortField(name) == normalize_sort_key(name)

\* The dict appended for the heading at h.
Candidate(doc, h) ==
    LET name == heading_name(doc, h)
    IN  [name |-> name,
         branche |-> parse_branche(block_text(doc, h)),
         url |-> first_link(doc, WalkStart(doc, h), WalkEnd(doc, h)),
         logo |-> find_logo_before_h3(doc, h),
         sort |-> SortField(name)]

\* The heading at h yields an entry.
Accepted(doc, h) ==
    /\ ~IsSkipped(heading_name(doc, h))
    /\ LET c == Candidate(doc, h) IN IsPartner(c.logo, c.branche, c.url)

RECURSIVE collect_entries(_, _)
\* The loop over headings from position i on: the list entries.
collect_entries(doc, i) ==
    IF i > Len(doc) THEN <<>>
    ELSE (IF doc[i].kind = "h3" /\ Accepted(doc, i)
          THEN <<Candidate(doc, i)>> ELSE <<>>)
         \o collect_entries(doc, i + 1)

\* Variant: the industry is part of the key.
DedupKeyWithBranche(e) == <<e.name, e.url, e.logo, e.branche>>

\* key = (e["name"], e["url"], e["logo"])
DedupKey(e) == <<e.name, e.url, e.logo>>

RECURSIVE dedup(_, _, _)
\* The dedup loop: uniq after the entries from position i on, given seen.
dedup(es, i, seen) ==
    IF i > Len(es) THEN <<>>
    ELSE IF DedupKey(es[i]) \in seen THEN dedup(es, i + 1, seen)
    ELSE <<es[i]>> \o dedup(es, i + 1, seen \cup {DedupKey(es[i])})

\* Variant: the list is sorted by the name as displayed.
SortKeyByName(e) == e.name

\* key=lambda x: x["sort"]
SortKeyOf(e) == e.sort

\* Insert e after every element whose key is not greater (stable).
InsertSorted(out, e) ==
    LET gt == {k \in 1..Len(out) : StrLess(SortKeyOf(e), SortKeyOf(out[k]))}
        at == IF gt = {} THEN Len(out) + 1 ELSE SetMin(gt)
    IN  SubSeq(out, 1, at - 1) \o <<e>> \o SubSeq(out, at, Len(out))

RECURSIVE sorted_from(_, _, _)
sorted_from(es, i, out) ==
    IF i > Len(es) THEN out ELSE sorted_from(es, i + 1, InsertSorted(out, es[i]))

\* sorted(uniq, key=...): a stable sort, ascending.
sorted(es) == sorted_from(es, 1, <<>>)

\* extract_entries(doc) raises: find_logo_before_h3 does, for a heading that
\* is not passed over.
extract_raises(doc) ==
    \E h \in headings(doc) :
        ~IsSkipped(heading_name(doc, h)) /\ find_logo_raises(doc, h)

\* What extract_entries(doc) returns when it does not raise.
extract_entries(doc) == sorted(dedup(collect_entries(doc, 1), 1, {}))

\* ------------------------------------------------------------------------
\* HTML output
\* ------------------------------------------------------------------------

\* One card of build_html: the escaped values it embeds.
Card(e) ==
    LET branche_text ==
            IF e.branche # <<>>
            THEN <<66, 114, 97, 110, 99, 104, 101, 58, 32>> \o e.branche
            ELSE <<>>
    IN  [href |-> IF esc_attr(e.url) # <<>> THEN esc_attr(e.url) ELSE <<35>>,
         data_name |-> esc_attr(e.name),
         data_branche |-> esc_attr(e.branche),
         data_url |-> esc_attr(e.url),
         img_src |-> esc_attr(e.logo),
         meta |-> esc_attr(branche_text)]

\* The document build_html returns: its cards, in order, and the total.
build_html(es) ==
    [cards |-> [i \in 1..Len(es) |-> Card(es[i])], total |-> Len(es)]

\* ------------------------------------------------------------------------
\* Main
\* ------------------------------------------------------------------------

MIN_ENTRIES == 10

\* Variant: only an empty list trips the guard.
GuardTripsWhenEmpty(es) == Len(es) = 0

\* if len(entries) < 10: raise SystemExit
GuardTrips(es) == Len(es) < MIN_ENTRIES

\* Variant: the status of the response is not looked at.
FetchRaisesTransportOnly(outcome) == outcome \in {"connection_error", "timeout"}

\* requests.get raises on a transport error or a timeout, raise_for_status
\* on a non-success status.
FetchRaises(outcome) == outcome \in {"connection_error", "timeout", "http_error"}

VARIABLES
    pc,         \* where main is
    server,     \* what the request to SOURCE_URL meets
    page,       \* the parsed body the server holds
    requests,   \* the number of calls of requests.get
    html,       \* main's html
    entries,    \* main's entries
    dist,       \* whether the directory dist exists
    out_file    \* what has been written to dist/index.html, one item per write

vars == <<pc, server, page, requests, html, entries, dist, out_file>>

\* html = fetch_html(SOURCE_URL)
fetch_html ==
    /\ pc = "fetch"
    /\ requests' = requests + 1
    /\ IF FetchRaises(server)
       THEN pc' = "fetch_error" /\ html' = html
       ELSE pc' = "extract" /\ html' = page
    /\ UNCHANGED <<server, page, entries, dist, out_file>>

\* entries = extract_entries(html); main catches no exception.
main_extract ==
    /\ pc = "extract"
    /\ IF extract_raises(html)
       THEN pc' = "extract_error" /\ entries' = entries
       ELSE pc' = "guard" /\ entries' = extract_entries(html)
    /\ UNCHANGED <<server, page, requests, html, dist, out_file>>

\* The diagnostics (two prints, which change nothing) and the guard.
main_guard ==
    /\ pc = "guard"
    /\ pc' = IF GuardTrips(entries) THEN "aborted" ELSE "ensure_dist"
    /\ UNCHANGED <<server, page, requests, html, entries, dist, out_file>>

\* os.makedirs(OUT_DIR, exist_ok=True)
ensure_dist ==
    /\ pc = "ensure_dist"
    /\ dist' = TRUE
    /\ pc' = "write"
    /\ UNCHANGED <<server, page, requests, html, entries, out_file>>

\* with open(OUT_FILE, "w") as f: f.write(build_html(entries))
main_write ==
    /\ pc = "write"
    /\ out_file' = Append(out_file, build_html(entries))
    /\ pc' = "done"
    /\ UNCHANGED <<server, page, requests, html, entries, dist>>

Next == fetch_html \/ main_extract \/ main_guard \/ ensure_dist \/ main_write

\* ------------------------------------------------------------------------
\* The pages the server may hold
\* ------------------------------------------------------------------------

MaxFrags == 4       \* fragments in a page of RecordPool
MaxWalkFrags == 3   \* fragments in a page of WalkPool
BigSpread == 1      \* big pages hold up to MIN_ENTRIES + BigSpread entries

H3 == Node("h3", <<>>, FALSE)
X_AT == <<104, 116, 116, 112, 115, 58, 47, 47, 120, 46, 97, 116>>  \* "https://x.at"
L_PNG == <<47, 108, 46, 112, 110, 103>>                            \* "/l.png"
\* " ./a/../l.png", which urljoin resolves as it resolves "/l.png"
L_DOTS == <<32, 46, 47, 97, 47, 46, 46, 47, 108, 46, 112, 110, 103>>
\* "data:image/png;base64,AA", which urljoin returns as it is
L_DATA ==
    <<100, 97, 116, 97, 58, 105, 109, 97, 103, 101, 47, 112, 110, 103, 59,
      98, 97, 115, 101, 54, 52, 44, 65, 65>>
\* "//[x", for which urljoin raises ValueError
L_BAD == <<47, 47, 91, 120>>
T_IT == <<66, 114, 97, 110, 99, 104, 101, 58, 32, 73, 84>>         \* "Branche: IT"
T_BAU == <<66, 114, 97, 110, 99, 104, 101, 58, 32, 66, 97, 117>>   \* "Branche: Bau"
\* "Branche: https://x.at"
T_URL == <<66, 114, 97, 110, 99, 104, 101, 58, 32>> \o X_AT
\* "Über Initiative Österreich 2040"
T_SKIP ==
    <<220, 98, 101, 114, 32, 73, 110, 105, 116, 105, 97, 116, 105, 118, 101,
      32, 214, 115, 116, 101, 114, 114, 101, 105, 99, 104, 32, 50, 48, 52, 48>>

\* <h3>name</h3>
PlainHeading(name) == <<H3, Node("text", name, TRUE)>>
\* <h3><a href="https://x.at">name</a></h3>
LinkedHeading(name) == <<H3, Node("a", X_AT, TRUE), Node("text", name, TRUE)>>
Leaf(kind, val) == <<Node(kind, val, FALSE)>>

\* Fragments for the claims about the records: headings named "Zo", "ab"
\* and "Ö  ß" that carry a link, a heading without evidence, two industry texts and two images whose
\* sources resolve to one URL.
RecordPool ==
    { LinkedHeading(<<90, 111>>), LinkedHeading(<<97, 98>>),
      LinkedHeading(<<214, 32, 32, 223>>), PlainHeading(<<97, 98>>),
      Leaf("text", T_IT), Leaf("text", T_BAU), Leaf("img", L_PNG),
      Leaf("img", L_DOTS) }

\* Fragments for the claims about the walks: headings "A" and "B", an empty
\* heading, a skip title, a heading that holds a link, a heading that holds
\* a label, an image with and one without src, an image with a data: source,
\* an image whose source urljoin rejects, an external link and two texts.
WalkPool ==
    { PlainHeading(<<65>>), PlainHeading(<<66>>), <<H3>>, PlainHeading(T_SKIP),
      LinkedHeading(<<67>>), PlainHeading(T_IT),
      Leaf("img", L_PNG), Leaf("img", <<>>), Leaf("img", L_DATA),
      Leaf("img", L_BAD), Leaf("a", X_AT),
      Leaf("text", T_IT), Leaf("text", T_URL) }

\* Every page of at most n fragments of pool.
PagesOver(pool, n) ==
    {Flatten(fs) : fs \in UNION {[1..k -> pool] : k \in 0..n}}

RECURSIVE Blocks(_)
\* Linked headings named chr(64 + n), ..., "B", "A", in this order.
Blocks(n) ==
    IF n = 0 THEN <<>> ELSE LinkedHeading(<<64 + n>>) \o Blocks(n - 1)

\* n distinct entries, d repetitions of the last one, e bare headings, s
\* linked headings with a skip title; before them r images whose source
\* urljoin rejects.
BigPage(n, d, e, s, r) ==
    Flatten([i \in 1..r |-> Leaf("img", L_BAD)])
    \o Flatten([i \in 1..s |-> LinkedHeading(T_SKIP)])
    \o Blocks(n)
    \o Flatten([i \in 1..d |-> LinkedHeading(<<65>>)])
    \o Flatten([i \in 1..e |-> PlainHeading(<<90>>)])

BigPages ==
    {BigPage(n, d, e, s, r) : n \in (MIN_ENTRIES - 1)..(MIN_ENTRIES + BigSpread),
                              d \in 0..1, e \in 0..1, s \in 0..1, r \in 0..1}

InitWith(pages) ==
    /\ pc = "fetch"
    /\ requests = 0
    /\ html = <<>>
    /\ entries = <<>>
    /\ dist = FALSE
    /\ out_file = <<>>
    /\ \/ server = "ok" /\ page \in pages \cup BigPages
       \/ server \in {"connection_error", "timeout"} /\ page = <<>>
       \/ server = "http_error" /\ page \in BigPages

Init == InitWith(PagesOver(RecordPool, MaxFrags))
Spec == Init /\ [][Next]_vars

InitWalk == InitWith(PagesOver(WalkPool, MaxWalkFrags))
SpecWalk == InitWalk /\ [][Next]_vars

\* ------------------------------------------------------------------------
\* Properties
\* ------------------------------------------------------------------------

\* extract_entries has returned.
Extracted == pc \in {"guard", "aborted", "ensure_dist", "write", "done"}

\* extract_entries has just returned: entries holds its result, which no
\* later step of main changes.
Returned == pc = "guard"

\* The position of the first h3 after h (Len + 1 when there is none).
NextH3(doc, h) ==
    SetMin({j \in (h + 1)..(Len(doc) + 1) : j = Len(doc) + 1 \/ doc[j].kind = "h3"})

\* The position of the last h3 before h (0 when there is none).
PrevH3(doc, h) ==
    SetMax({j \in 0..(h - 1) : j = 0 \/ doc[j].kind = "h3"})

\* C1: the output file is written only after extraction has finished and the
\* record list has passed the guard: a run whose extraction returns fewer
\* than 10 records aborts with no file written, and a write happens only in
\* a run with at least 10 records, once, with the full record list.
C1_WriteOnlyAfterGuard ==
    /\ out_file # <<>> =>
          /\ pc = "done"
          /\ Len(out_file) = 1
          /\ entries = extract_entries(html)
          /\ Len(entries) >= 10
          /\ out_file[1].total = Len(entries)
          /\ Len(out_file[1].cards) = Len(entries)
    /\ pc \in {"ensure_dist", "write", "done"} => Len(entries) >= 10
    /\ (Extracted /\ Len(entries) < 10) =>
          /\ out_file = <<>>
          /\ pc \in {"guard", "aborted"}
    /\ pc = "aborted" => Len(entries) < 10 /\ ~ENABLED Next
    /\ pc = "extract_error" => entries = <<>> /\ out_file = <<>> /\ ~ENABLED Next

\* A run aborted by the guard although the page holds more than 10 headings:
\* 9 records are left after the filter and the deduplication.
C1_Witness ==
    /\ pc = "aborted"
    /\ Len(entries) = 9
    /\ Cardinality(headings(html)) > 10
    /\ out_file = <<>>

\* C2: when the fetch fails (transport error, timeout, non-success status)
\* the run ends there: one request was made, extraction never starts and no
\* output file is written.
C2_FetchFailureAborts ==
    (server # "ok" /\ requests > 0) =>
        /\ requests = 1
        /\ pc = "fetch_error"
        /\ html = <<>>
        /\ entries = <<>>
        /\ out_file = <<>>
        /\ ~ENABLED Next

\* A non-success status whose body would have passed the guard.
C2_Witness ==
    /\ pc = "fetch_error"
    /\ server = "http_error"
    /\ ~extract_raises(page)
    /\ Len(extract_entries(page)) >= 10
    /\ requests = 1

\* C3: the returned sequence is ascending by sort key: a record with a
\* smaller sort key (code-point order) comes before one with a greater.
C3_SortedBySortKey ==
    Returned =>
        \A i, j \in 1..Len(entries) :
            StrLess(entries[i].sort, entries[j].sort) => i < j

\* Three records or more, returned in another order than the document's.
C3_Witness ==
    /\ Returned
    /\ Len(entries) >= 3
    /\ entries # dedup(collect_entries(html, 1), 1, {})
    /\ \E i, j \in 1..Len(entries) :
          i < j /\ StrLess(entries[j].name, entries[i].name)

\* C4: no two returned records share (name, link, logo), and the record kept
\* for a tuple is the first accepted candidate with it in document order, so
\* that of two candidates differing only in industry the first is kept.
C4_DedupFirstWins ==
    Returned =>
        LET cands == collect_entries(html, 1)
            Key(e) == <<e.name, e.url, e.logo>>
            First(k) == cands[SetMin({i \in 1..Len(cands) : Key(cands[i]) = k})]
        IN  /\ \A i, j \in 1..Len(entries) :
                  Key(entries[i]) = Key(entries[j]) => i = j
            /\ \A i \in 1..Len(entries) :
                  /\ \E c \in 1..Len(cands) : Key(cands[c]) = Key(entries[i])
                  /\ entries[i] = First(Key(entries[i]))
            /\ \A c \in 1..Len(cands) :
                  \E i \in 1..Len(entries) : Key(entries[i]) = Key(cands[c])

\* Two accepted candidates with one (name, link, logo) and two industries.
C4_Witness ==
    /\ Returned
    /\ LET cands == collect_entries(html, 1)
       IN  \E a, b \in 1..Len(cands) :
              /\ a < b
              /\ cands[a].name = cands[b].name
              /\ cands[a].url = cands[b].url
              /\ cands[a].logo = cands[b].logo
              /\ cands[a].branche # cands[b].branche
              /\ \E i \in 1..Len(entries) : entries[i] = cands[a]

\* The heading at h has a name that is not passed over, and neither a logo
\* nor an industry nor an external link is found for it.
NoEvidence(doc, h) ==
    /\ find_logo_before_h3(doc, h) = None
    /\ parse_branche(block_text(doc, h)) = None
    /\ first_link(doc, h + 1, NextH3(doc, h) - 1) = None

\* C6: every returned record has a non-empty name and a logo, an industry
\* or a link; a heading for which none of the three is found yields no
\* record, its non-empty name notwithstanding.
C6_AcceptanceFilter ==
    Returned =>
        /\ \A i \in 1..Len(entries) :
              /\ entries[i].name # <<>>
              /\ \/ entries[i].logo # <<>>
                 \/ entries[i].branche # <<>>
                 \/ entries[i].url # <<>>
        /\ Len(collect_entries(html, 1)) =
              Cardinality({h \in headings(html) :
                  /\ heading_name(html, h) # <<>>
                  /\ str_upper(heading_name(html, h)) \notin SKIP_TITLES
                  /\ ~NoEvidence(html, h)})
        /\ Len(entries) <= Len(collect_entries(html, 1))

\* A named heading without evidence beside one that yields a record.
C6_Witness ==
    /\ Returned
    /\ Len(entries) >= 1
    /\ \E h \in headings(html) :
          /\ heading_name(html, h) # <<>>
          /\ str_upper(heading_name(html, h)) \notin SKIP_TITLES
          /\ NoEvidence(html, h)

\* C7: the sort key of every returned record is its normalized name
\* (trimmed, lower case, ä, ö, ü, ß written ae, oe, ue, ss, whitespace runs
\* collapsed), as in "Müller GmbH" -> "mueller gmbh" and "Groß & Söhne" ->
\* "gross & soehne"; the name stays the heading's display name.
C7_SortKeyIsNormalizedName ==
    /\ normalize_sort_key(<<77, 252, 108, 108, 101, 114, 32, 71, 109, 98, 72>>)
           = <<109, 117, 101, 108, 108, 101, 114, 32, 103, 109, 98, 104>>
    /\ normalize_sort_key(<<71, 114, 111, 223, 32, 38, 32, 83, 246, 104, 110, 101>>)
           = <<103, 114, 111, 115, 115, 32, 38, 32, 115, 111, 101, 104, 110, 101>>
    /\ Returned =>
          \A i \in 1..Len(entries) :
              LET e == entries[i]
              IN  /\ e.sort = normalize_sort_key(e.name)
                  /\ \E h \in headings(html) : e.name = heading_name(html, h)
                  /\ \A k \in 1..Len(e.sort) :
                        /\ e.sort[k] \notin {228, 246, 252, 223}
                        /\ LowerChar(e.sort[k]) = e.sort[k]
                        /\ IsSpace(e.sort[k]) =>
                              /\ e.sort[k] = 32
                              /\ k > 1 /\ k < Len(e.sort)
                              /\ ~IsSpace(e.sort[k + 1])

\* A record named "Ö  ß" with the sort key "oe ss".
C7_Witness ==
    /\ Returned
    /\ \E i \in 1..Len(entries) :
          /\ entries[i].name = <<214, 32, 32, 223>>
          /\ entries[i].sort = <<111, 101, 32, 115, 115>>

\* What the walks contribute to the record of the heading at h.
WalkFields(doc, h) ==
    LET c == Candidate(doc, h) IN <<c.url, c.branche, c.logo>>

\* An image, an external link and a labelled text.
Intruders ==
    <<Node("img", <<112, 46, 112, 110, 103>>, FALSE),
      Node("a", HTTP_PREFIX \o <<112, 46, 97, 116>>, FALSE),
      Node("text", <<66, 114, 97, 110, 99, 104, 101, 58, 32, 80>>, FALSE)>>

\* C5: for consecutive headings H1, H2 no node after H2 contributes to the
\* record of H1: link, industry and logo of H1 are the same whether the
\* document ends at H2 or goes on with any image, link or text.
C5_NothingAfterNextHeading ==
    Returned =>
        \A h1 \in headings(html) :
            LET h2 == NextH3(html, h1)
            IN  h2 <= Len(html) =>
                  \A rest \in {<<>>, Intruders} :
                      LET cut == SubSeq(html, 1, h2) \o rest
                      IN  /\ WalkFields(cut, h1) = WalkFields(html, h1)
                          /\ Accepted(html, h1) =>
                                \E i \in 1..Len(entries) :
                                    /\ entries[i].name = heading_name(cut, h1)
                                    /\ entries[i].url = Candidate(cut, h1).url
                                    /\ entries[i].logo = Candidate(cut, h1).logo

\* A record of H1 without industry and logo, and after H2 a labelled text
\* and an image with a source.
C5_Witness ==
    /\ Returned
    /\ \E h1 \in headings(html) :
          LET h2 == NextH3(html, h1)
          IN  /\ h2 <= Len(html)
              /\ Accepted(html, h1)
              /\ Candidate(html, h1).branche = None
              /\ \E k \in (h2 + 1)..Len(html) :
                    \/ html[k].kind = "text" /\ parse_branche(html[k].val) # None
                    \/ html[k].kind = "img" /\ html[k].val # <<>>

\* The industry parsed from the texts at positions lo..hi.
IndustryOfRange(doc, lo, hi) ==
    parse_branche(str_strip(re_sub_ws(str_join(<<32>>, collect_texts(doc, lo, hi)))))

\* The first external link at positions lo..hi is link.
FirstLinkOfRange(doc, lo, hi, link) ==
    LET ext == {k \in lo..hi : /\ doc[k].kind = "a"
                               /\ \/ str_startswith(str_strip(doc[k].val), HTTP_PREFIX)
                                  \/ str_startswith(str_strip(doc[k].val), HTTPS_PREFIX)}
    IN  IF ext = {} THEN link = None
        ELSE link = str_strip(doc[SetMin(ext)].val)

\* C8 as stated: texts and links come from the nodes after the heading
\* element and all its descendants, and before the next h3.
C8_RegionExcludesHeadingContent ==
    Returned =>
        \A h \in headings(html) :
            LET lo == LastDescendant(html, h) + 1
                hi == NextH3(html, h) - 1
            IN  /\ FirstLinkOfRange(html, lo, hi, Candidate(html, h).url)
                /\ Candidate(html, h).branche = IndustryOfRange(html, lo, hi)

\* C8, amended: texts and links come from the nodes after the start of the
\* heading element, its own descendants included, and before the next h3.
C8_RegionStartsInsideHeading ==
    Returned =>
        \A h \in headings(html) :
            LET lo == h + 1
                hi == NextH3(html, h) - 1
            IN  /\ FirstLinkOfRange(html, lo, hi, Candidate(html, h).url)
                /\ Candidate(html, h).branche = IndustryOfRange(html, lo, hi)
                /\ Accepted(html, h) =>
                      \E i \in 1..Len(entries) :
                          /\ entries[i].name = heading_name(html, h)
                          /\ FirstLinkOfRange(html, lo, hi, entries[i].url)

\* A record whose link is the link nested in its heading.
C8_Witness ==
    /\ Returned
    /\ \E h \in headings(html) :
          /\ Accepted(html, h)
          /\ \E k \in (h + 1)..LastDescendant(html, h) :
                /\ html[k].kind = "a"
                /\ Candidate(html, h).url = html[k].val
          /\ \E i \in 1..Len(entries) : entries[i] = Candidate(html, h)

\* "branche:" ignoring case.
LABEL == <<98, 114, 97, 110, 99, 104, 101, 58>>

\* The industry as C9 states it: what follows the first label in text, cut
\* at the first whitespace followed by http:// or https://, trimmed.
IndustryAsStated(text) ==
    LET labels == {p \in 1..Len(text) : MatchLitI(text, p, LABEL)}
    IN  IF labels = {} THEN None
        ELSE LET q == SetMin(labels) + Len(LABEL)
                 marks == {m \in q..Len(text) : UrlMarkerAt(text, m)}
                 e == IF marks = {} THEN Len(text) ELSE SetMin(marks) - 1
             IN  str_strip(SubSeq(text, q, e))

\* C9: the industry is the text after the first "Branche:" label of the
\* region text, cut at the first embedded URL marker or the end, trimmed,
\* and absent when empty, so that it never begins with or contains a URL.
C9_IndustryCutAtUrl ==
    Returned =>
        \A h \in headings(html) :
            LET b == Candidate(html, h).branche
            IN  ~IsSkipped(heading_name(html, h)) =>
                /\ b = IndustryAsStated(block_text(html, h))
                /\ ~MatchLitI(b, 1, HTTP_PREFIX)
                /\ ~MatchLitI(b, 1, HTTPS_PREFIX)
                /\ \A m \in 1..Len(b) : ~UrlMarkerAt(b, m)

\* The logo as found between the previous h3 and the heading at h: the
\* resolved source of the last image there that has one.
LogoBetween(doc, h) ==
    LET imgs == {k \in (PrevH3(doc, h) + 1)..(h - 1) :
                    doc[k].kind = "img" /\ doc[k].val # <<>>}
    IN  IF imgs = {} THEN None ELSE urljoin(BASE, doc[SetMax(imgs)].val)

\* C10 as stated: the logo is the source of the first image element met
\* walking backward, whether that element has a source or not.
C10_LogoOfFirstImageMet ==
    Returned =>
        \A h \in headings(html) :
            LET imgs == {k \in (PrevH3(html, h) + 1)..(h - 1) : html[k].kind = "img"}
                src == IF imgs = {} THEN <<>> ELSE html[SetMax(imgs)].val
            IN  ~IsSkipped(heading_name(html, h)) =>
                    Candidate(html, h).logo =
                        IF src = <<>> THEN None ELSE urljoin(BASE, src)

\* C10, amended: the logo is the source, resolved against BASE, of the first
\* image element with a non-empty source met walking backward from the
\* heading; the walk ends at the nearest earlier h3, whatever became of that
\* heading: an image before it is never used, and without such an image
\* between the two the record has no logo.  Resolved means what urljoin
\* returns: "/l.png" becomes BASE + "/l.png", a data: source stays as it is.
C10_LogoStopsAtEarlierHeading ==
    Returned =>
        /\ \A h \in headings(html) :
              /\ Candidate(html, h).logo = LogoBetween(html, h)
              /\ Accepted(html, h) =>
                    \E i \in 1..Len(entries) :
                        /\ entries[i].name = heading_name(html, h)
                        /\ entries[i].logo = LogoBetween(html, h)
        /\ \A i \in 1..Len(entries) :
              \E h \in headings(html) :
                  /\ entries[i].name = heading_name(html, h)
                  /\ entries[i].logo = LogoBetween(html, h)
        /\ \A h \in headings(html) :
              \A k \in (PrevH3(html, h) + 1)..(h - 1) :
                  (/\ html[k].kind = "img"
                   /\ \A j \in (k + 1)..(h - 1) : html[j].kind # "img") =>
                      /\ html[k].val = L_PNG => Candidate(html, h).logo = BASE \o L_PNG
                      /\ html[k].val = L_DATA => Candidate(html, h).logo = L_DATA

\* A record without logo, whose heading follows a heading that yields no
\* record, before which an image with a source lies.
C10_Witness ==
    /\ Returned
    /\ \E h \in headings(html) :
          LET p == PrevH3(html, h)
          IN  /\ p > 0
              /\ ~Accepted(html, p)
              /\ \E k \in 1..(p - 1) : html[k].kind = "img" /\ html[k].val # <<>>
              /\ Accepted(html, h)
              /\ \E i \in 1..Len(entries) :
                    entries[i] = Candidate(html, h) /\ entries[i].logo = None

====
